---- MODULE Spec2Model ----
(***************************************************************************)
(* Model of convoviz/models/_message.py: the pydantic models               *)
(* ImageAssetPointer, MessageAuthor, MessageContent and Message, the       *)
(* class-wide header configuration and the accessors header and text.      *)
(*                                                                         *)
(* The module imports ConfigDict, so it runs on pydantic 2.  What is used  *)
(* of pydantic's semantics:                                                *)
(*   - constructing a model validates every declared field, collects all   *)
(*     the errors, and either returns the object or raises one             *)
(*     ValidationError;                                                    *)
(*   - a field with no default is required (also one annotated Any);       *)
(*   - a field's default is taken unvalidated when the key is missing;     *)
(*   - str | None accepts None; List[...] does not;                        *)
(*   - @validator(pre=True, each_item=True) runs on every element of the   *)
(*     list before the element's own type is validated; a ValueError it    *)
(*     raises becomes an error of that element;                            *)
(*   - constructing a BaseModel subclass calls neither its validate        *)
(*     classmethod nor __get_validators__.                                 *)
(***************************************************************************)
EXTENDS Integers, Sequences, FiniteSets, TLC

VARIABLES configs, messages, last, updates

vars == <<configs, messages, last, updates>>

(***************************************************************************)
(* Python values, tagged with the name of their type.                      *)
(***************************************************************************)
PyNone == [t |-> "NoneType"]

\* a key that the raw mapping does not have
Absent == [t |-> "absent"]

PyStr(s) == [t |-> "str", s |-> s]

PyInt(n) == [t |-> "int", n |-> n]

\* a list; elems is the sequence of its elements
PyList(elems) == [t |-> "list", elems |-> elems]

\* a dict; items is the sequence of its [k, v] entries in insertion order
PyDict(items) == [t |-> "dict", items |-> items]

Keys(d) == {d.items[i].k : i \in 1..Len(d.items)}

\* d[k], for k in d
Item(d, k) == d.items[CHOOSE i \in 1..Len(d.items) : d.items[i].k = k].v

\* d.get(k)
Get(d, k) == IF k \in Keys(d) THEN Item(d, k) ELSE PyNone

\* d[k] = v
SetItem(d, k, v) ==
    IF k \in Keys(d)
    THEN PyDict([i \in 1..Len(d.items) |->
                 IF d.items[i].k = k THEN [k |-> k, v |-> v] ELSE d.items[i]])
    ELSE PyDict(Append(d.items, [k |-> k, v |-> v]))

(***************************************************************************)
(* json.dumps and repr, on the values the model uses.                      *)
(***************************************************************************)
RECURSIVE json_dumps(_)
RECURSIVE json_items(_, _)

json_items(items, i) ==
    IF i > Len(items) THEN ""
    ELSE (IF i > 1 THEN ", " ELSE "")
         \o "\"" \o items[i].k \o "\": " \o json_dumps(items[i].v)
         \o json_items(items, i + 1)

json_dumps(v) ==
    CASE v.t = "NoneType" -> "null"
      [] v.t = "str"      -> "\"" \o v.s \o "\""
      [] v.t = "int"      -> ToString(v.n)
      [] v.t = "dict"     -> "{" \o json_items(v.items, 1) \o "}"

RECURSIVE repr(_)
RECURSIVE repr_items(_, _)

repr_items(items, i) ==
    IF i > Len(items) THEN ""
    ELSE (IF i > 1 THEN ", " ELSE "")
         \o "'" \o items[i].k \o "': " \o repr(items[i].v)
         \o repr_items(items, i + 1)

repr(v) ==
    CASE v.t = "NoneType" -> "None"
      [] v.t = "str"      -> "'" \o v.s \o "'"
      [] v.t = "int"      -> ToString(v.n)
      [] v.t = "dict"     -> "{" \o repr_items(v.items, 1) \o "}"

(***************************************************************************)
(* Outcomes of a call.                                                     *)
(***************************************************************************)
Return(v) == [kind |-> "return", value |-> v]

Raise(exc, msg) == [kind |-> "raise", exc |-> exc, msg |-> msg]

\* one line of a pydantic ValidationError
Error(loc, type, msg) == [loc |-> loc, type |-> type, msg |-> msg]

\* a ValidationError carrying the collected errors
Invalid(errors) == [kind |-> "raise", exc |-> "ValidationError", errors |-> errors]

(***************************************************************************)
(* ImageAssetPointer                                                       *)
(***************************************************************************)
StrFields == <<"content_type", "asset_pointer">>

IntFields == <<"size_bytes", "width", "height">>

AnyFields == <<"fovea", "metadata">>

PointerFields == StrFields \o IntFields \o AnyFields

Range(s) == {s[i] : i \in 1..Len(s)}

\* ImageAssetPointer.validate(values): the normalisation of the raw mapping
validate(values) ==
    LET m  == Get(values, "metadata")
        v1 == IF m.t = "dict"
              THEN SetItem(values, "metadata", PyStr(json_dumps(m)))
              ELSE IF m.t = "NoneType"
                   THEN SetItem(values, "metadata", PyStr("{}"))
                   ELSE values
    IN  IF Get(v1, "fovea").t = "NoneType"
        THEN SetItem(v1, "fovea", PyStr(""))
        ELSE v1

\* the error, if any, of one declared field of ImageAssetPointer
PointerFieldErrors(values, f) ==
    IF f \notin Keys(values)
    THEN {Error(f, "missing", "Field required")}
    ELSE LET v == Item(values, f)
         IN  IF f \in Range(StrFields) /\ v.t # "str"
             THEN {Error(f, "string_type", "Input should be a valid string")}
             ELSE IF f \in Range(IntFields) /\ v.t # "int"
                  THEN {Error(f, "int_type", "Input should be a valid integer")}
                  ELSE {}

\* ImageAssetPointer.__init__ on the mapping values: the declared fields are
\* validated one by one; the class's validate is not part of construction
ImageAssetPointer(values) ==
    LET errors == UNION {PointerFieldErrors(values, f) : f \in Range(PointerFields)}
    IN  IF errors # {}
        THEN Invalid(errors)
        ELSE Return([t             |-> "ImageAssetPointer",
                     content_type  |-> Item(values, "content_type"),
                     asset_pointer |-> Item(values, "asset_pointer"),
                     size_bytes    |-> Item(values, "size_bytes"),
                     width         |-> Item(values, "width"),
                     height        |-> Item(values, "height"),
                     fovea         |-> Item(values, "fovea"),
                     metadata      |-> Item(values, "metadata")])

\* str(ValidationError): the collected errors, field by field
RECURSIVE errors_text(_, _)
errors_text(errors, i) ==
    IF i > Len(PointerFields) THEN ""
    ELSE LET here == {e \in errors : e.loc = PointerFields[i]}
         IN  (IF here = {} THEN ""
              ELSE LET e == CHOOSE e \in here : TRUE
                   IN  " " \o e.loc \o ": " \o e.msg)
             \o errors_text(errors, i + 1)

ValidationErrorText(title, errors) ==
    ToString(Cardinality(errors)) \o " validation error for " \o title \o ":"
    \o errors_text(errors, 1)

\* str(p) of an ImageAssetPointer p: pydantic prints the fields as name=repr
PointerFieldRepr(p, f) ==
    CASE f = "content_type"  -> repr(p.content_type)
      [] f = "asset_pointer" -> repr(p.asset_pointer)
      [] f = "size_bytes"    -> repr(p.size_bytes)
      [] f = "width"         -> repr(p.width)
      [] f = "height"        -> repr(p.height)
      [] f = "fovea"         -> repr(p.fovea)
      [] f = "metadata"      -> repr(p.metadata)

RECURSIVE pointer_str(_, _)
pointer_str(p, i) ==
    IF i > Len(PointerFields) THEN ""
    ELSE (IF i > 1 THEN " " ELSE "")
         \o PointerFields[i] \o "=" \o PointerFieldRepr(p, PointerFields[i])
         \o pointer_str(p, i + 1)

\* str(v) of an element of parts
str(v) == IF v.t = "str" THEN v ELSE PyStr(pointer_str(v, 1))

(***************************************************************************)
(* MessageAuthor                                                           *)
(***************************************************************************)
AuthorRole == {"user", "assistant", "system", "tool"}

\* RoleErrors, were the role only required to be a string
RoleErrors_any_string(role) ==
    IF role.t = "str"
    THEN {}
    ELSE {Error("author.role", "literal_error",
                "Input should be 'user', 'assistant', 'system' or 'tool'")}

\* MessageAuthor.role: the raw value must be one of the four literals
RoleErrors(role) ==
    IF role.t = "str" /\ role.s \in AuthorRole
    THEN {}
    ELSE {Error("author.role", "literal_error",
                "Input should be 'user', 'assistant', 'system' or 'tool'")}

(***************************************************************************)
(* MessageContent                                                          *)
(***************************************************************************)
\* validate_parts, were an element of another type passed on as it is
validate_parts_lenient(v) ==
    IF v.t = "dict" THEN ImageAssetPointer(v) ELSE Return(v)

\* MessageContent.validate_parts(v), run on one raw element of parts
validate_parts(v) ==
    IF v.t = "dict"
    THEN ImageAssetPointer(v)
    ELSE IF v.t = "str"
         THEN Return(v)
         ELSE Raise("ValueError", "Invalid type for parts: <class '" \o v.t \o "'>")

\* the error of element i (from 1) of the raw list, located by its Python index
PartErrors(elems, i) ==
    LET r   == validate_parts(elems[i])
        loc == "content.parts." \o ToString(i - 1)
    IN  IF r.kind = "return" THEN {}
        ELSE IF r.exc = "ValueError"
             THEN {Error(loc, "value_error", "Value error, " \o r.msg)}
             ELSE {Error(loc, "value_error", "Value error, "
                         \o ValidationErrorText("ImageAssetPointer", r.errors))}

\* MessageContent.parts: a missing key takes the default [], anything that is
\* not a list is refused, and every element of a list goes through validate_parts
PartsErrors(parts) ==
    IF parts.t = "absent" THEN {}
    ELSE IF parts.t # "list"
         THEN {Error("content.parts", "list_type", "Input should be a valid list")}
         ELSE UNION {PartErrors(parts.elems, i) : i \in 1..Len(parts.elems)}

\* PartsValue, were the default of parts None
PartsValue_default_none(parts) ==
    IF parts.t = "absent" THEN PyNone
    ELSE PyList([i \in 1..Len(parts.elems) |-> validate_parts(parts.elems[i]).value])

PartsValue(parts) ==
    IF parts.t = "absent" THEN PyList(<<>>)
    ELSE PyList([i \in 1..Len(parts.elems) |-> validate_parts(parts.elems[i]).value])

\* a field declared str | None = None
OptionalStrErrors(loc, v) ==
    IF v.t \in {"absent", "NoneType", "str"} THEN {}
    ELSE {Error(loc, "string_type", "Input should be a valid string")}

OptionalStrValue(v) == IF v.t = "absent" THEN PyNone ELSE v

\* MessageContent built from the raw content mapping
ContentErrors(content) ==
    (IF content.content_type.t = "absent"
     THEN {Error("content.content_type", "missing", "Field required")}
     ELSE IF content.content_type.t # "str"
          THEN {Error("content.content_type", "string_type",
                      "Input should be a valid string")}
          ELSE {})
    \cup PartsErrors(content.parts)
    \cup OptionalStrErrors("content.text", content.text)
    \cup OptionalStrErrors("content.result", content.result)

MessageContent(content) ==
    [content_type |-> content.content_type,
     parts        |-> PartsValue(content.parts),
     text         |-> OptionalStrValue(content.text),
     result       |-> OptionalStrValue(content.result)]

(***************************************************************************)
(* Message                                                                 *)
(***************************************************************************)
\* Message built from the raw mapping.  The raw mappings of the model carry
\* valid values for id, status, weight, metadata, recipient and
\* author.metadata, so these fields add no error.
Message(raw) ==
    LET errors == RoleErrors(raw.author.role) \cup ContentErrors(raw.content)
    IN  IF errors # {}
        THEN Invalid(errors)
        ELSE Return([id      |-> raw.id,
                     author  |-> [role |-> raw.author.role],
                     content |-> MessageContent(raw.content)])

\* the fence line of a code block (a TLA+ string cannot hold the grave accent
\* of the markdown fence, so the tilde fence stands for it)
Fence == "~~~"

\* convoviz.utils.code_block: the text between an opening and a closing fence
code_block(text) == PyStr(Fence \o "python\n" \o text.s \o "\n" \o Fence)

\* text, were content.text looked at before parts
text_prefers_text(m) ==
    IF m.content.text.t # "NoneType"
    THEN Return(code_block(m.content.text))
    ELSE IF Len(m.content.parts.elems) >= 1
         THEN Return(str(m.content.parts.elems[1]))
         ELSE Raise("IndexError", "list index out of range")

\* Message.text
text(m) ==
    IF m.content.parts.t # "NoneType"
    THEN IF Len(m.content.parts.elems) >= 1
         THEN Return(str(m.content.parts.elems[1]))
         ELSE Raise("IndexError", "list index out of range")
    ELSE IF m.content.text.t # "NoneType"
         THEN Return(code_block(m.content.text))
         ELSE IF m.content.result.t # "NoneType"
              THEN Return(m.content.result)
              ELSE Raise("ValueError", "No valid content found in message: " \o m.id.s)

(***************************************************************************)
(* The class-wide configuration                                            *)
(***************************************************************************)
\* convoviz.utils.DEFAULT_MESSAGE_CONFIGS: a header for each of the four roles
DEFAULT_MESSAGE_CONFIGS ==
    [author_headers |-> [system    |-> "### System",
                         user      |-> "# Me",
                         assistant |-> "# ChatGPT",
                         tool      |-> "### Tool output"]]

\* dict_update, were the keys d already has kept
dict_update_keep(d, other) ==
    [k \in DOMAIN d \cup DOMAIN other |-> IF k \in DOMAIN d THEN d[k] ELSE other[k]]

\* dict_update, were the headers under author_headers merged role by role
dict_update_deep(d, other) ==
    [k \in DOMAIN d \cup DOMAIN other |->
        IF k \notin DOMAIN other THEN d[k]
        ELSE IF k = "author_headers" /\ k \in DOMAIN d
             THEN [r \in DOMAIN d[k] \cup DOMAIN other[k] |->
                     IF r \in DOMAIN other[k] THEN other[k][r] ELSE d[k][r]]
             ELSE other[k]]

\* dict.update: the keys of other are set in d, one level deep
dict_update(d, other) ==
    [k \in DOMAIN d \cup DOMAIN other |-> IF k \in DOMAIN other THEN other[k] ELSE d[k]]

\* Message.header, read against the configuration cfg
header(m, cfg) ==
    IF "author_headers" \notin DOMAIN cfg
    THEN Raise("KeyError", "author_headers")
    ELSE IF m.author.role.s \notin DOMAIN cfg["author_headers"]
         THEN Raise("KeyError", m.author.role.s)
         ELSE Return(PyStr(cfg["author_headers"][m.author.role.s]))

(***************************************************************************)
(* Inputs                                                                  *)
(***************************************************************************)
\* the longest raw parts list
MaxParts == 2

\* the ids of the messages of a session
Ids == {PyStr("m1"), PyStr("m2")}

\* raw author roles: the four literals, two other strings and null
RawRoles == {PyStr(r) : r \in AuthorRole \cup {"developer", "User"}} \cup {PyNone}

Entry(k, v) == IF v.t = "absent" THEN <<>> ELSE <<[k |-> k, v |-> v]>>

\* a raw image mapping with the given fovea and metadata (Absent: no such key)
RawPointer(fovea, metadata) ==
    PyDict(<<[k |-> "content_type",  v |-> PyStr("image_asset_pointer")],
             [k |-> "asset_pointer", v |-> PyStr("file-1")],
             [k |-> "size_bytes",    v |-> PyInt(10)],
             [k |-> "width",         v |-> PyInt(2)],
             [k |-> "height",        v |-> PyInt(2)]>>
           \o Entry("fovea", fovea) \o Entry("metadata", metadata))

RawFoveas == {Absent, PyNone, PyStr("f")}

RawMetadatas == {Absent, PyNone, PyStr("m"), PyDict(<<[k |-> "a", v |-> PyInt(1)]>>)}

RawPointers == {RawPointer(f, m) : f \in RawFoveas, m \in RawMetadatas}

\* the raw elements of parts: a string, a number, null, an image mapping with
\* every key and one without metadata
RawElems ==
    {PyStr("hello"), PyInt(7), PyNone,
     RawPointer(PyNone, PyDict(<<[k |-> "a", v |-> PyInt(1)]>>)),
     RawPointer(PyNone, Absent)}

RawParts ==
    {Absent, PyNone}
    \cup {PyList(s) : s \in UNION {[1..n -> RawElems] : n \in 0..MaxParts}}

RawTexts == {PyNone, PyStr("print(1)")}

RawResults == {PyNone, PyStr("42")}

RawMessage(i, r, p, t, u) ==
    [id      |-> i,
     author  |-> [role |-> r],
     content |-> [content_type |-> PyStr("text"), parts |-> p,
                  text |-> t, result |-> u]]

\* the raw messages of a session: every role, with a one-string parts, with
\* text alone and with a parts that holds a number
SessionMessages ==
    {RawMessage(i, r, c[1], c[2], PyNone) :
        i \in Ids, r \in RawRoles,
        c \in {<<PyList(<<PyStr("hello")>>), PyNone>>,
               <<Absent, PyStr("print(1)")>>,
               <<PyList(<<PyInt(7)>>), PyNone>>}}

IsShort(p) == p.t # "list" \/ Len(p.elems) <= 1

\* the raw messages of one node: every parts; text and result vary in full
\* against the parts of at most one element and are both given with the others
ContentMessages ==
    {raw \in {RawMessage(PyStr("m1"), PyStr("user"), p, t, u) :
                 p \in RawParts, t \in RawTexts, u \in RawResults} :
        \/ IsShort(raw.content.parts)
        \/ raw.content.text # PyNone /\ raw.content.result # PyNone}

YouHeaders ==
    [system |-> "### System", user |-> "### You",
     assistant |-> "### Bot", tool |-> "### Tool"]

PlainHeaders ==
    [system |-> "System", user |-> "User", assistant |-> "Assistant", tool |-> "Tool"]

\* the arguments of update_configs: the role given at the top level, a header
\* for every role under author_headers (two such), a header for one role under
\* it (two such)
UpdateArgs ==
    {[user |-> "### You"],
     [author_headers |-> YouHeaders],
     [author_headers |-> PlainHeaders],
     [author_headers |-> [user |-> "### You"]],
     [author_headers |-> [assistant |-> "### Bot"]]}

(***************************************************************************)
(* The state: the class attribute, the live Message objects, the latest    *)
(* call with its outcome, and what update_configs was called with.         *)
(***************************************************************************)
NoCall == [called |-> FALSE]

Called(x) == [called |-> TRUE, with |-> x]

Init ==
    /\ configs = DEFAULT_MESSAGE_CONFIGS
    /\ messages = {}
    /\ last = [op |-> "none"]
    /\ updates = [latest |-> NoCall, headers |-> NoCall]

\* Message constructed from the mapping raw; message ids are unique in an export
Construct(raw) ==
    /\ raw.id \notin {m.id : m \in messages}
    /\ LET r == Message(raw)
       IN  /\ messages' = IF r.kind = "return" THEN messages \cup {r.value}
                          ELSE messages
           /\ last' = [op |-> "construct", raw |-> raw, outcome |-> r]
    /\ UNCHANGED <<configs, updates>>

\* Message.update_configs(arg)
update_configs(arg) ==
    /\ configs' = dict_update(configs, arg)
    /\ updates' = [latest  |-> Called(arg),
                   headers |-> IF "author_headers" \in DOMAIN arg
                               THEN Called(arg["author_headers"])
                               ELSE updates.headers]
    /\ last' = [op |-> "update_configs"]
    /\ UNCHANGED messages

\* m.header
ReadHeader(m) ==
    /\ last' = [op |-> "header", of |-> m, outcome |-> header(m, configs)]
    /\ UNCHANGED <<configs, messages, updates>>

\* m.text
ReadText(m) ==
    /\ last' = [op |-> "text", of |-> m, outcome |-> text(m)]
    /\ UNCHANGED <<configs, messages, updates>>

\* ImageAssetPointer constructed directly from the mapping values
NewPointer(values) ==
    /\ last' = [op |-> "pointer", raw |-> values, outcome |-> ImageAssetPointer(values)]
    /\ UNCHANGED <<configs, messages, updates>>

\* ImageAssetPointer.validate(values), called directly
CallValidate(values) ==
    /\ last' = [op |-> "validate", raw |-> values, outcome |-> Return(validate(values))]
    /\ UNCHANGED <<configs, messages, updates>>

\* a session: messages of every role are built and read while the headers are
\* reconfigured
Next ==
    \/ \E raw \in SessionMessages : Construct(raw)
    \/ \E arg \in UpdateArgs : update_configs(arg)
    \/ \E m \in messages : ReadHeader(m)
    \/ \E m \in messages : ReadText(m)

Spec == Init /\ [][Next]_vars

\* one node: a message of any content is built and read, and image pointers
\* are built and normalised
NextContent ==
    \/ \E raw \in ContentMessages : Construct(raw)
    \/ \E m \in messages : ReadHeader(m)
    \/ \E m \in messages : ReadText(m)
    \/ \E values \in RawPointers : NewPointer(values)
    \/ \E values \in RawPointers : CallValidate(values)

SpecContent == Init /\ [][NextContent]_vars

(***************************************************************************)
(* Properties                                                              *)
(***************************************************************************)
Constructed == last.op = "construct"

Failed == last.outcome.kind = "raise"

\* no live Message carries the id of the raw mapping of the latest call
NothingBuilt == last.raw.id \notin {m.id : m \in messages}

RawPartsOfLast == last.raw.content.parts

HeaderOf(role) == last.op = "header" /\ last.of.author.role = PyStr(role)

\* C1, as claimed: once update_configs was last called with {"user": "### You"},
\* header returns "### You" for every Message whose role is user.
C1_Original ==
    (updates.latest = Called([user |-> "### You"]) /\ HeaderOf("user"))
        => last.outcome = Return(PyStr("### You"))

\* C1, amended: header of a user Message, whenever it was constructed, returns
\* the header that the latest author_headers mapping given to update_configs
\* has for user (so "### You" after {"author_headers": {"user": "### You", ...}}),
\* and the default header while no call has given an author_headers mapping,
\* as after {"user": "### You"} alone.
C1_HeaderFollowsAuthorHeaders ==
    HeaderOf("user") =>
        IF updates.headers.called
        THEN "user" \in DOMAIN updates.headers.with
                => last.outcome = Return(PyStr(updates.headers.with["user"]))
        ELSE last.outcome =
                Return(PyStr(DEFAULT_MESSAGE_CONFIGS["author_headers"]["user"]))

\* two user Messages are live, update_configs was called with YouHeaders under
\* author_headers and then with the role at the top level, and header is read
C1_Witness ==
    /\ HeaderOf("user")
    /\ Cardinality({m \in messages : m.author.role = PyStr("user")}) = 2
    /\ updates.headers = Called(YouHeaders)
    /\ updates.latest = Called([user |-> "### You"])
    /\ last.outcome = Return(PyStr("### You"))

\* C2, as claimed: a raw message without parts (null or no such key) whose text
\* is given yields a Message, and its text is the code block of content.text;
\* with text null and result given, its text is content.result.
C2_TextFallsThrough ==
    (Constructed /\ RawPartsOfLast \in {PyNone, Absent}
       /\ (last.raw.content.text # PyNone \/ last.raw.content.result # PyNone))
        => /\ ~Failed
           /\ text(last.outcome.value) =
                 IF last.raw.content.text # PyNone
                 THEN Return(PyStr(Fence \o "python\n" \o last.raw.content.text.s
                                   \o "\n" \o Fence))
                 ELSE Return(last.raw.content.result)

\* C3, as claimed: a raw message without parts (null or no such key), with
\* text null and result null, yields a Message whose text fails with the
\* "No valid content" error that names the id.
C3_NoValidContent ==
    (Constructed /\ RawPartsOfLast \in {PyNone, Absent}
       /\ last.raw.content.text = PyNone /\ last.raw.content.result = PyNone)
        => /\ ~Failed
           /\ text(last.outcome.value) =
                 Raise("ValueError", "No valid content found in message: "
                                     \o last.raw.id.s)

\* the string form of the one image pointer that parts can hold
HelloPointerStr ==
    "content_type='image_asset_pointer' asset_pointer='file-1' size_bytes=10 "
    \o "width=2 height=2 fovea=None metadata={'a': 1}"

\* C4: for a Message whose parts has at least one element, text returns the
\* string form of parts[0]: the string itself, or the printed fields of the
\* image pointer, whatever content.text, content.result and the other elements.
C4_TextIsFirstPart ==
    (last.op = "text" /\ Len(last.of.content.parts.elems) >= 1)
        => LET first == last.of.content.parts.elems[1]
           IN  /\ last.outcome.kind = "return"
               /\ first.t = "str" => last.outcome.value = first
               /\ first.t = "ImageAssetPointer"
                     => last.outcome.value = PyStr(HelloPointerStr)

\* text is read from a Message with parts ["hello", <image>], text and result
C4_Witness ==
    /\ last.op = "text"
    /\ Len(last.of.content.parts.elems) = 2
    /\ last.of.content.parts.elems[1] = PyStr("hello")
    /\ last.of.content.parts.elems[2].t = "ImageAssetPointer"
    /\ last.of.content.text = PyStr("print(1)")
    /\ last.of.content.result = PyStr("42")
    /\ last.outcome = Return(PyStr("hello"))

RawMetadataOf(values) == IF "metadata" \in Keys(values) THEN Item(values, "metadata")
                         ELSE Absent

RawFoveaOf(values) == IF "fovea" \in Keys(values) THEN Item(values, "fovea")
                      ELSE Absent

\* the image pointers held by the live Messages
PointersInParts ==
    UNION {{m.content.parts.elems[i] : i \in 1..Len(m.content.parts.elems)}
             \cap {e \in Range(m.content.parts.elems) : e.t = "ImageAssetPointer"}
           : m \in messages}

\* C5, as claimed: a constructed ImageAssetPointer holds its metadata as a
\* string: the JSON text of a raw mapping, "{}" for a raw null or no key.
C5_MetadataIsString ==
    /\ \A p \in PointersInParts : p.metadata.t = "str"
    /\ last.op = "pointer" =>
          LET raw == RawMetadataOf(last.raw)
          IN  /\ ~Failed => last.outcome.value.metadata.t = "str"
              /\ raw.t = "dict" =>
                    ~Failed /\ last.outcome.value.metadata = PyStr("{\"a\": 1}")
              /\ raw.t \in {"absent", "NoneType"} =>
                    ~Failed /\ last.outcome.value.metadata = PyStr("{}")

\* C6, as claimed: a constructed ImageAssetPointer holds its fovea as a string,
\* the empty string for a raw null.
C6_FoveaIsString ==
    /\ \A p \in PointersInParts : p.fovea.t = "str"
    /\ last.op = "pointer" =>
          LET raw == RawFoveaOf(last.raw)
          IN  /\ ~Failed => last.outcome.value.fovea.t = "str"
              /\ raw.t = "NoneType" =>
                    ~Failed /\ last.outcome.value.fovea = PyStr("")

\* C7: a raw parts list with an element that is neither a string nor a mapping,
\* wherever it stands, makes the construction fail with an error at that
\* element that names its type, and no Message is built.
C7_BadPartFails ==
    (Constructed /\ RawPartsOfLast.t = "list") =>
        \A i \in 1..Len(RawPartsOfLast.elems) :
            RawPartsOfLast.elems[i].t \notin {"str", "dict"} =>
                /\ Failed
                /\ NothingBuilt
                /\ \E e \in last.outcome.errors :
                      /\ e.loc = "content.parts." \o ToString(i - 1)
                      /\ e.msg = "Value error, Invalid type for parts: <class '"
                                 \o RawPartsOfLast.elems[i].t \o "'>"

\* construction was tried with parts ["hello", 7]
C7_Witness ==
    /\ Constructed
    /\ RawPartsOfLast = PyList(<<PyStr("hello"), PyInt(7)>>)
    /\ Failed
    /\ \E e \in last.outcome.errors :
          e.msg = "Value error, Invalid type for parts: <class 'int'>"

RoleErrorsOfLast == {e \in last.outcome.errors : e.loc = "author.role"}

\* C8: a raw role outside {user, assistant, system, tool} makes the
\* construction fail and no Message is built; with one of the four, a
\* construction that fails has no error about the role.
C8_RoleIsClosed ==
    Constructed =>
        IF last.raw.author.role \in {PyStr("user"), PyStr("assistant"),
                                     PyStr("system"), PyStr("tool")}
        THEN Failed => RoleErrorsOfLast = {}
        ELSE Failed /\ NothingBuilt /\ RoleErrorsOfLast # {}

\* a message of role developer whose content is valid was refused
C8_Witness ==
    /\ Constructed
    /\ last.raw.author.role = PyStr("developer")
    /\ last.raw.content.parts = PyList(<<PyStr("hello")>>)
    /\ Failed
    /\ Cardinality(last.outcome.errors) = 1

\* C9, as claimed: starting from headers for all four roles, header never
\* fails after any sequence of update_configs calls.
C9_Original == last.op = "header" => last.outcome.kind = "return"

\* the role -> header mapping that the calls of update_configs leave
ExpectedHeaders ==
    IF updates.headers.called THEN updates.headers.with
    ELSE DEFAULT_MESSAGE_CONFIGS["author_headers"]

C9_Headers ==
    /\ "author_headers" \in DOMAIN configs
    /\ configs["author_headers"] = ExpectedHeaders
    /\ last.op = "header" =>
          (last.outcome.kind = "raise"
             <=> last.of.author.role.s \notin DOMAIN ExpectedHeaders)

C9_Frame == configs' # configs => last'.op = "update_configs"

\* C9, amended: the configuration changes only in update_configs (not in a
\* construction, a header read or a text read); a call whose argument has an
\* author_headers mapping replaces the whole role -> header mapping by it, a
\* call without one leaves every header as it was; header fails exactly for
\* the roles that the latest author_headers mapping given has no header for.
C9_ConfigChangesOnlyByUpdate == []C9_Headers /\ [][C9_Frame]_vars

\* header of an assistant Message fails after {"author_headers": {"user": ...}}
C9_Witness ==
    /\ HeaderOf("assistant")
    /\ updates.headers = Called([user |-> "### You"])
    /\ last.outcome = Raise("KeyError", "assistant")

\* C10: a raw content without parts, or with the empty list, yields a Message
\* whose parts is the empty list (parts is never null in a Message), and text
\* of such a Message fails with IndexError whatever content.text and
\* content.result are: no code block, no result, no "No valid content" error.
C10_EmptyPartsIndexError ==
    /\ \A m \in messages : m.content.parts.t = "list"
    /\ (Constructed /\ RawPartsOfLast \in {Absent, PyList(<<>>)}) =>
          ~Failed /\ last.outcome.value.content.parts = PyList(<<>>)
    /\ (last.op = "text" /\ last.of.content.parts = PyList(<<>>)) =>
          last.outcome = Raise("IndexError", "list index out of range")

\* text is read from a Message built without parts, with text and result
C10_Witness ==
    /\ last.op = "text"
    /\ last.of.content.parts = PyList(<<>>)
    /\ last.of.content.text = PyStr("print(1)")
    /\ last.of.content.result = PyStr("42")
    /\ last.outcome.exc = "IndexError"

====
